---- MODULE Spec2Model ----
(***************************************************************************)
(* Model of ecr_mirror (src/ecr_mirror/__init__.py): the `sync` command    *)
(* (repository discovery, destination login, upstream tag resolution, the  *)
(* 4-wide copy pool) and the tag matcher of find_tags_to_copy.             *)
(*                                                                         *)
(* Strings the code takes apart (tags, glob patterns, metadata values,     *)
(* image references) are sequences of one-character strings.               *)
(***************************************************************************)
EXTENDS Integers, Sequences, FiniteSets, TLC

(***************************************************************************)
(* Bounds of the model.                                                    *)
(***************************************************************************)
\* number of repositories the registry lists (describe_repositories)
NumRepos == 2
\* tag matcher inputs: longest upstream tag, longest glob pattern
MaxTagLen == 2
MaxPatLen == 2
\* decoder inputs: longest metadata value
MaxValueLen == 3

(***************************************************************************)
(* Program constants.                                                      *)
(***************************************************************************)
\* ThreadPoolExecutor(max_workers=4)
max_workers == 4
\* copy_image(..., sleep_time=1)
sleep_time == 1

(***************************************************************************)
(* String helpers: Python str methods used by the code.                    *)
(***************************************************************************)
\* str.replace(old, new) for one-character old and new
RECURSIVE replace(_, _, _)
replace(s, old, new) ==
    IF s = <<>> THEN <<>>
    ELSE <<IF Head(s) = old THEN new ELSE Head(s)>> \o replace(Tail(s), old, new)

\* str.split(sep) for a one-character sep: "" gives [""], never []
RECURSIVE splitAcc(_, _, _)
splitAcc(s, sep, cur) ==
    IF s = <<>> THEN <<cur>>
    ELSE IF Head(s) = sep THEN <<cur>> \o splitAcc(Tail(s), sep, <<>>)
    ELSE splitAcc(Tail(s), sep, Append(cur, Head(s)))

split(s, sep) == splitAcc(s, sep, <<>>)

\* dict.get(key, default)
get(d, key, default) == IF key \in DOMAIN d THEN d[key] ELSE default

\* fnmatch.fnmatch(name, pattern) on POSIX (normcase is the identity):
\* the pattern must match the whole name, * is any run of characters,
\* ? is any one character, every other character stands for itself.
\* Bracket expressions are outside the alphabets used here.
RECURSIVE fnmatch(_, _)
fnmatch(name, pattern) ==
    IF pattern = <<>> THEN name = <<>>
    ELSE IF Head(pattern) = "*"
         THEN fnmatch(name, Tail(pattern))
              \/ (name # <<>> /\ fnmatch(Tail(name), pattern))
    ELSE /\ name # <<>>
         /\ (Head(pattern) = "?" \/ Head(pattern) = Head(name))
         /\ fnmatch(Tail(name), Tail(pattern))

\* the elements of a sequence
Range(s) == {s[i] : i \in DOMAIN s}

\* seq filtered by a predicate given as the set of elements to keep
RECURSIVE SelectIn(_, _)
SelectIn(s, keep) ==
    IF s = <<>> THEN <<>>
    ELSE (IF Head(s) \in keep THEN <<Head(s)>> ELSE <<>>) \o SelectIn(Tail(s), keep)

(***************************************************************************)
(* find_tags_to_copy: the tag matcher.                                     *)
(***************************************************************************)
\* does_match with an include match returning before the exclude test
does_match_include_first(tag, tag_patterns, ignore_tags) ==
    LET any_matches == \E i \in DOMAIN tag_patterns : fnmatch(tag, tag_patterns[i])
        any_negates == \E i \in DOMAIN ignore_tags : fnmatch(tag, ignore_tags[i])
    IN  IF any_matches THEN TRUE
        ELSE IF any_negates THEN FALSE
        ELSE tag_patterns = <<>>

\* does_match with the exclude test missing from the copy-all branch
does_match_no_negate(tag, tag_patterns, ignore_tags) ==
    LET any_matches == \E i \in DOMAIN tag_patterns : fnmatch(tag, tag_patterns[i])
        any_negates == \E i \in DOMAIN ignore_tags : fnmatch(tag, ignore_tags[i])
    IN  IF tag_patterns = <<>> THEN TRUE
        ELSE IF any_negates THEN FALSE
        ELSE any_matches

\* does_match(tag), closed over tag_patterns and ignore_tags
does_match(tag, tag_patterns, ignore_tags) ==
    LET any_matches == \E i \in DOMAIN tag_patterns : fnmatch(tag, tag_patterns[i])
        any_negates == \E i \in DOMAIN ignore_tags : fnmatch(tag, ignore_tags[i])
    IN  IF tag_patterns = <<>> /\ ~any_negates THEN TRUE
        ELSE IF any_negates THEN FALSE
        ELSE any_matches

\* the generator's output for a listing all_tags, in listing order
select_tags(all_tags, tag_patterns, ignore_tags) ==
    SelectIn(all_tags,
             {t \in Range(all_tags) : does_match(t, tag_patterns, ignore_tags)})

(***************************************************************************)
(* The environment: the destination registry and the upstream registry.    *)
(***************************************************************************)
alpine == <<"a","l","p","i","n","e">>
busybox == <<"b","u","s","y","b","o","x">>

K_image == "upstream-image"
K_tags == "upstream-tags"
K_ignore == "ignore-tags"

\* resource tag sets an operator may have put on a repository
MetadataChoices ==
    { [k \in {"team"} |-> <<"o","p","s">>],
      [k \in {K_image} |-> alpine],
      [k \in {K_image, K_tags, K_ignore} |->
          CASE k = K_image -> alpine
            [] k = K_tags -> <<"3",".","+">>
            [] k = K_ignore -> <<"3",".","9">>],
      [k \in {K_image, K_tags} |->
          CASE k = K_image -> busybox
            [] k = K_tags -> <<"1","+","/","l","a","t","e","?","t">>],
      [k \in {K_image, K_ignore} |->
          CASE k = K_image -> busybox
            [] k = K_ignore -> <<"1",".","+">>] }

\* what `skopeo list-tags` prints for an image when it succeeds
UpstreamTags(image) ==
    IF image = alpine
    THEN << <<"3",".","8">>, <<"3",".","9">>, <<"3",".","1","0">>,
            <<"l","a","t","e","s","t">> >>
    ELSE << <<"1">>, <<"1",".","3">>, <<"l","a","t","e","s","t">> >>

Digit == <<"1","2","3","4","5","6","7","8","9">>
\* repo["repositoryArn"], repo["repositoryUri"] of the i-th listed repository
RepositoryArn(i) == <<"a","r","n","/",Digit[i]>>
RepositoryUri(i) == <<"e","c","r","/",Digit[i]>>

\* authorizationToken blobs the registry may issue, and base64.decodebytes
AuthBlobs == {"QVdTOnB3MQ==", "QVdTOnB3Mg=="}
b64decode(blob) ==
    CASE blob = "QVdTOnB3MQ==" -> "AWS:pw1"
      [] blob = "QVdTOnB3Mg==" -> "AWS:pw2"

None == "None"

(***************************************************************************)
(* find_repositories.filter_repo: repository metadata to descriptor.       *)
(***************************************************************************)
\* the decoding without the wildcard escape
decode_patterns_no_escape(value) == split(value, "/")

\* value.replace("+", "*").split("/"): a metadata value to its glob patterns
decode_patterns(value) == split(replace(value, "+", "*"), "/")

\* filter_repo testing for the upstream-tags key instead of upstream-image
filter_repo_needs_tags(repo) ==
    LET tags_dict == repo.tags
    IN  IF K_tags \in DOMAIN tags_dict
        THEN << [upstream_image |-> tags_dict[K_image],
                 upstream_tags |-> decode_patterns(get(tags_dict, K_tags, <<>>)),
                 ignore_tags |-> decode_patterns(get(tags_dict, K_ignore, <<>>)),
                 repository_uri |-> repo.repositoryUri] >>
        ELSE <<>>

\* Optional[MirroredRepo] is a sequence of no or one descriptor
filter_repo(repo) ==
    LET tags_dict == repo.tags
    IN  IF K_image \in DOMAIN tags_dict
        THEN << [upstream_image |-> tags_dict[K_image],
                 upstream_tags |-> decode_patterns(get(tags_dict, K_tags, <<>>)),
                 ignore_tags |-> decode_patterns(get(tags_dict, K_ignore, <<>>)),
                 repository_uri |-> repo.repositoryUri] >>
        ELSE <<>>

\* f"{item[0].upstream_image}:{item[1]}"
source_image(item) == item[1].upstream_image \o <<":">> \o item[2]

\* the destination reference built from the upstream image name
dest_image_from_upstream(item) == item[1].upstream_image \o <<":">> \o item[2]

\* f"{item[0].repository_uri}:{item[1]}"
dest_image(item) == item[1].repository_uri \o <<":">> \o item[2]

(***************************************************************************)
(* State.                                                                  *)
(***************************************************************************)
VARIABLES
    registry,       \* all_repositories: what describe_repositories lists
    pc,             \* where the main thread of the command is
    abort,          \* the call whose exception ended the run, or "none"
    task,           \* discovery pool: state of each filter_repo future
    yielded,        \* results of pool.map the generator has consumed
    repositories,   \* the MirroredRepo values yielded so far, in order
    token,          \* copy_repositories' token
    resolved,       \* descriptors whose find_tags_to_copy has been consumed
    items,          \* copy_repositories' items: <<repo, tag>> pairs
    wi,             \* copy pool: state of each submitted WorkItem
    busy,           \* WorkItems whose copy_image call has not returned
    calls,          \* per WorkItem, the skopeo copy invocations made for it
    exits,          \* per WorkItem, the exit statuses skopeo copy returned
    sleeps,         \* per WorkItem, the time.sleep calls that have returned
    logins,         \* get_authorization_token calls made so far
    matcher,        \* one application of the tag matcher on its own
    argv,           \* the arguments of the `copy` command, <<>> for `sync`
    decoder         \* one decoding of a metadata value on its own

vars == <<registry, pc, abort, task, yielded, repositories, token, resolved,
          items, wi, busy, calls, exits, sleeps, logins, matcher, argv, decoder>>

discoveryVars == <<task, yielded, repositories>>
copyVars == <<token, resolved, items, wi, busy, calls, exits, sleeps, logins>>

Terminal == {"Succeeded", "Failed"}

SeqsUpTo(S, n) == UNION {[1..k -> S] : k \in 0..n}

NoMatcher == [all_tags |-> <<>>, tag_patterns |-> <<>>, ignore_tags |-> <<>>,
              result |-> <<>>, called |-> FALSE]

NoDecoder == [value |-> <<>>, result |-> <<>>, called |-> FALSE]

\* the registries of NumRepos repositories, no two with the same tag set
Registries ==
    {[i \in 1..NumRepos |->
         [repositoryArn |-> RepositoryArn(i),
          repositoryUri |-> RepositoryUri(i),
          tags |-> m[i]]] :
     m \in {f \in [1..NumRepos -> MetadataChoices] :
               \A i, j \in 1..NumRepos : f[i] = f[j] => i = j}}

\* the state when `sync` is entered
Init ==
    /\ registry \in Registries
    /\ pc = "sync"
    /\ abort = "none"
    /\ task = [i \in 1..NumRepos |-> "new"]
    /\ yielded = 0
    /\ repositories = <<>>
    /\ token = None
    /\ resolved = 0
    /\ items = <<>>
    /\ wi = <<>>
    /\ busy = {}
    /\ calls = <<>>
    /\ exits = <<>>
    /\ sleeps = <<>>
    /\ logins = 0
    /\ matcher = NoMatcher
    /\ argv = <<>>
    /\ decoder = NoDecoder

(***************************************************************************)
(* Discovery stage: find_repositories, consumed by list() in sync.         *)
(***************************************************************************)
\* the describe_repositories pages are read and pool.map submits one
\* filter_repo future per repository
FindRepositories ==
    /\ pc = "sync"
    /\ pc' = "discover"
    /\ task' = [i \in 1..NumRepos |-> "pending"]
    /\ UNCHANGED <<registry, abort, yielded, repositories, copyVars, matcher, argv, decoder>>

\* a pool thread takes a future from the queue and calls
\* list_tags_for_resource (ThreadPoolExecutor() is wider than the registry)
FetchStart(i) ==
    /\ task[i] = "pending"
    /\ task' = [task EXCEPT ![i] = "running"]
    /\ UNCHANGED <<registry, pc, abort, yielded, repositories, copyVars, matcher, argv, decoder>>

\* list_tags_for_resource answers: filter_repo returns a descriptor or None
FetchReturn(i) ==
    /\ task[i] = "running"
    /\ task' = [task EXCEPT ![i] = "done"]
    /\ UNCHANGED <<registry, pc, abort, yielded, repositories, copyVars, matcher, argv, decoder>>

\* list_tags_for_resource raises: the future holds the exception
FetchRaise(i) ==
    /\ task[i] = "running"
    /\ task' = [task EXCEPT ![i] = "raised"]
    /\ UNCHANGED <<registry, pc, abort, yielded, repositories, copyVars, matcher, argv, decoder>>

\* for item in pool.map(...): the next result, in submission order, is ready
YieldItem ==
    /\ pc = "discover"
    /\ yielded < NumRepos
    /\ task[yielded + 1] = "done"
    /\ yielded' = yielded + 1
    /\ repositories' = repositories \o filter_repo(registry[yielded + 1])
    /\ UNCHANGED <<registry, pc, abort, task, copyVars, matcher, argv, decoder>>

\* the next result is an exception: result() re-raises it in the generator,
\* pool.map's iterator cancels the futures not yet started, and the
\* with-block starts shutdown(wait=True)
YieldRaise ==
    /\ pc = "discover"
    /\ yielded < NumRepos
    /\ task[yielded + 1] = "raised"
    /\ pc' = "unwind"
    /\ abort' = "fetch"
    /\ task' = [i \in 1..NumRepos |-> IF task[i] = "pending" THEN "cancelled" ELSE task[i]]
    /\ UNCHANGED <<registry, yielded, repositories, copyVars, matcher, argv, decoder>>

\* shutdown(wait=True) returns; the exception leaves list() and sync
Unwound ==
    /\ pc = "unwind"
    /\ \A i \in 1..NumRepos : task[i] # "running"
    /\ pc' = "aborted"
    /\ UNCHANGED <<registry, abort, discoveryVars, copyVars, matcher, argv, decoder>>

\* a consumer that goes on to copy_repositories after the first result
DiscoveryDone_early ==
    /\ pc = "discover"
    /\ yielded >= 1
    /\ pc' = "login"
    /\ UNCHANGED <<registry, abort, discoveryVars, copyVars, matcher, argv, decoder>>

\* pool.map is exhausted, the with-block joins the pool, list() returns and
\* sync calls copy_repositories
DiscoveryDone ==
    /\ pc = "discover"
    /\ yielded = NumRepos
    /\ pc' = "login"
    /\ UNCHANGED <<registry, abort, discoveryVars, copyVars, matcher, argv, decoder>>

(***************************************************************************)
(* copy_repositories: login, tag resolution, the copy pool.                *)
(***************************************************************************)
\* ecr_login returns the decoded authorization token
EcrLogin(blob) ==
    /\ pc = "login"
    /\ token' = b64decode(blob)
    /\ logins' = logins + 1
    /\ pc' = "resolve"
    /\ UNCHANGED <<registry, abort, discoveryVars, resolved, items, wi, busy,
                   calls, exits, sleeps, matcher, argv, decoder>>

\* the login failure caught and the run going on without a token
EcrLoginRaise_swallowed ==
    /\ pc = "login"
    /\ pc' = "resolve"
    /\ abort' = "login"
    /\ logins' = logins + 1
    /\ UNCHANGED <<registry, discoveryVars, token, resolved, items, wi, busy,
                   calls, exits, sleeps, matcher, argv, decoder>>

\* get_authorization_token raises: the exception leaves copy_repositories
EcrLoginRaise ==
    /\ pc = "login"
    /\ pc' = "aborted"
    /\ abort' = "login"
    /\ logins' = logins + 1
    /\ UNCHANGED <<registry, discoveryVars, token, resolved, items, wi, busy,
                   calls, exits, sleeps, matcher, argv, decoder>>

\* the (repo, tag) pairs the comprehension adds for one descriptor
expand(repo) ==
    LET tags == select_tags(UpstreamTags(repo.upstream_image),
                            repo.upstream_tags, repo.ignore_tags)
    IN  [k \in 1..Len(tags) |-> <<repo, tags[k]>>]

\* the comprehension takes the next descriptor and `skopeo list-tags` answers
FindTagsToCopy ==
    /\ pc = "resolve"
    /\ resolved < Len(repositories)
    /\ items' = items \o expand(repositories[resolved + 1])
    /\ resolved' = resolved + 1
    /\ UNCHANGED <<registry, pc, abort, discoveryVars, token, wi, busy, calls,
                   exits, sleeps, logins, matcher, argv, decoder>>

\* `skopeo list-tags` exits non-zero: check_output raises
\* CalledProcessError, which leaves the comprehension and copy_repositories
FindTagsToCopyRaise ==
    /\ pc = "resolve"
    /\ resolved < Len(repositories)
    /\ pc' = "aborted"
    /\ abort' = "listing"
    /\ UNCHANGED <<registry, discoveryVars, copyVars, matcher, argv, decoder>>

\* a pool that is fed as soon as one descriptor has been resolved
PoolMap_streaming ==
    /\ pc = "resolve"
    /\ resolved >= 1
    /\ pc' = "pool"
    /\ wi' = [i \in 1..Len(items) |-> "Pending"]
    /\ calls' = [i \in 1..Len(items) |-> <<>>]
    /\ exits' = [i \in 1..Len(items) |-> <<>>]
    /\ sleeps' = [i \in 1..Len(items) |-> <<>>]
    /\ UNCHANGED <<registry, abort, discoveryVars, token, resolved, items, busy,
                   logins, matcher, argv, decoder>>

\* the comprehension is finished: pool.map submits one future per item
PoolMap ==
    /\ pc = "resolve"
    /\ resolved = Len(repositories)
    /\ pc' = "pool"
    /\ wi' = [i \in 1..Len(items) |-> "Pending"]
    /\ calls' = [i \in 1..Len(items) |-> <<>>]
    /\ exits' = [i \in 1..Len(items) |-> <<>>]
    /\ sleeps' = [i \in 1..Len(items) |-> <<>>]
    /\ UNCHANGED <<registry, abort, discoveryVars, token, resolved, items, busy,
                   logins, matcher, argv, decoder>>

\* a pool that starts a thread per queued item
worker_available_unbounded(running) == TRUE

\* a pool that stops taking items once an item has failed
worker_available_until_failure(running) ==
    /\ Cardinality(running) < max_workers
    /\ \A j \in DOMAIN wi : wi[j] # "Failed"

\* a thread of the pool is free to take a future from the queue
worker_available(running) == Cardinality(running) < max_workers

\* a copy that logs in again and passes the token it gets
StartCopy_fresh_login(i) ==
    /\ pc = "pool"
    /\ i \in DOMAIN wi
    /\ wi[i] = "Pending"
    /\ \A j \in 1..(i - 1) : wi[j] # "Pending"
    /\ worker_available(busy)
    /\ wi' = [wi EXCEPT ![i] = "Running"]
    /\ busy' = busy \cup {i}
    /\ logins' = logins + 1
    /\ \E blob \in AuthBlobs :
          calls' = [calls EXCEPT ![i] = Append(@, [source |-> source_image(items[i]),
                                                   dest |-> dest_image(items[i]),
                                                   creds |-> b64decode(blob)])]
    /\ UNCHANGED <<registry, pc, abort, discoveryVars, token, resolved, items,
                   exits, sleeps, matcher, argv, decoder>>

\* a worker takes the oldest queued item and copy_image starts skopeo copy
StartCopy(i) ==
    /\ pc = "pool"
    /\ i \in DOMAIN wi
    /\ wi[i] = "Pending"
    /\ \A j \in 1..(i - 1) : wi[j] # "Pending"
    /\ worker_available(busy)
    /\ wi' = [wi EXCEPT ![i] = "Running"]
    /\ busy' = busy \cup {i}
    /\ calls' = [calls EXCEPT ![i] = Append(@, [source |-> source_image(items[i]),
                                                dest |-> dest_image(items[i]),
                                                creds |-> token])]
    /\ UNCHANGED <<registry, pc, abort, discoveryVars, token, resolved, items,
                   exits, sleeps, logins, matcher, argv, decoder>>

\* a copy_image that puts a failed item back in the queue
copy_result_retry(returncode) == IF returncode = 0 THEN "Succeeded" ELSE "Pending"

\* what copy_image makes of skopeo's exit status: CalledProcessError is
\* caught and reported, nothing is raised
copy_result(returncode) == IF returncode = 0 THEN "Succeeded" ELSE "Failed"

\* a copy_image without the except clause whose exception reaches the
\* main thread: a non-zero exit ends the run
TransferExit_raising(i, returncode) ==
    /\ i \in DOMAIN wi
    /\ wi[i] = "Running"
    /\ wi' = [wi EXCEPT ![i] = copy_result(returncode)]
    /\ exits' = [exits EXCEPT ![i] = Append(@, returncode)]
    /\ pc' = IF returncode = 0 THEN pc ELSE "aborted"
    /\ abort' = IF returncode = 0 THEN abort ELSE "copy"
    /\ UNCHANGED <<registry, discoveryVars, token, resolved, items,
                   busy, calls, sleeps, logins, matcher, argv, decoder>>

\* skopeo copy exits; copy_image goes on to time.sleep(sleep_time)
TransferExit(i, returncode) ==
    /\ i \in DOMAIN wi
    /\ wi[i] = "Running"
    /\ wi' = [wi EXCEPT ![i] = copy_result(returncode)]
    /\ exits' = [exits EXCEPT ![i] = Append(@, returncode)]
    /\ UNCHANGED <<registry, pc, abort, discoveryVars, token, resolved, items,
                   busy, calls, sleeps, logins, matcher, argv, decoder>>

\* a cooldown inside the try block: skipped when skopeo copy failed
cooldown_on_success(result) ==
    IF result = "Succeeded" THEN <<sleep_time>> ELSE <<>>

\* the time.sleep(sleep_time) that follows the try statement, whatever the
\* result of the copy
cooldown(result) == <<sleep_time>>

\* time.sleep returns, copy_image returns and the worker is free again
CooldownDone(i) ==
    /\ i \in busy
    /\ wi[i] \in Terminal
    /\ sleeps' = [sleeps EXCEPT ![i] = @ \o cooldown(wi[i])]
    /\ busy' = busy \ {i}
    /\ UNCHANGED <<registry, pc, abort, discoveryVars, token, resolved, items,
                   wi, calls, exits, logins, matcher, argv, decoder>>

\* the pool left without waiting for its threads
PoolJoin_nowait ==
    /\ pc = "pool"
    /\ pc' = "done"
    /\ UNCHANGED <<registry, abort, discoveryVars, copyVars, matcher, argv, decoder>>

\* the with-block's shutdown(wait=True) returns: copy_repositories returns
PoolJoin ==
    /\ pc = "pool"
    /\ busy = {}
    /\ \A i \in DOMAIN wi : wi[i] # "Pending"
    /\ pc' = "done"
    /\ UNCHANGED <<registry, abort, discoveryVars, copyVars, matcher, argv, decoder>>

Next ==
    \/ FindRepositories
    \/ \E i \in 1..NumRepos : FetchStart(i)
    \/ \E i \in 1..NumRepos : FetchReturn(i)
    \/ \E i \in 1..NumRepos : FetchRaise(i)
    \/ YieldItem
    \/ YieldRaise
    \/ Unwound
    \/ DiscoveryDone
    \/ \E blob \in AuthBlobs : EcrLogin(blob)
    \/ EcrLoginRaise
    \/ FindTagsToCopy
    \/ FindTagsToCopyRaise
    \/ PoolMap
    \/ \E i \in DOMAIN wi : StartCopy(i)
    \/ \E i \in DOMAIN wi, returncode \in {0, 1} : TransferExit(i, returncode)
    \/ \E i \in DOMAIN wi : CooldownDone(i)
    \/ PoolJoin

Spec == Init /\ [][Next]_vars

\* the copy stage under a fair thread scheduler, every skopeo copy and
\* every sleep returning
FairSpec ==
    /\ Spec
    /\ WF_vars(\E i \in DOMAIN wi : StartCopy(i))
    /\ WF_vars(\E i \in DOMAIN wi, returncode \in {0, 1} : TransferExit(i, returncode))
    /\ WF_vars(\E i \in DOMAIN wi : CooldownDone(i))
    /\ WF_vars(PoolJoin)

(***************************************************************************)
(* The `copy` command: one descriptor built from the command line, then    *)
(* copy_repositories.                                                      *)
(***************************************************************************)
CopyImages == {alpine, busybox}
CopyTags == { <<"3",".","8">>, <<"3",".","7">>, <<"1">>,
              <<"l","a","t","e","s","t">>, <<"3",".","*">> }
\* SOURCE arguments: image:tag, and one reference with a registry port
CopySources ==
    {image \o <<":">> \o tag : image \in CopyImages, tag \in CopyTags}
       \cup { <<"h",":","5","/","x",":","1">> }
CopyDestination == <<"e","c","r","/","m">>

\* a descriptor whose include list is empty: every upstream tag is copied
copy_descriptor_all_tags(source, destination_repository) ==
    [upstream_image |-> split(source, ":")[1],
     upstream_tags |-> <<>>,
     repository_uri |-> destination_repository,
     ignore_tags |-> <<>>]

\* the MirroredRepo that copy builds from source.split(":")
copy_descriptor(source, destination_repository) ==
    [upstream_image |-> split(source, ":")[1],
     upstream_tags |-> <<split(source, ":")[2]>>,
     repository_uri |-> destination_repository,
     ignore_tags |-> <<>>]

\* the state when `copy SOURCE DESTINATION-REPOSITORY` is entered
InitCopy ==
    /\ argv \in [source : CopySources, destination_repository : {CopyDestination}]
    /\ registry = CHOOSE r \in Registries : TRUE
    /\ pc = "copy"
    /\ abort = "none"
    /\ task = [i \in 1..NumRepos |-> "new"]
    /\ yielded = 0
    /\ repositories = <<>>
    /\ token = None
    /\ resolved = 0
    /\ items = <<>>
    /\ wi = <<>>
    /\ busy = {}
    /\ calls = <<>>
    /\ exits = <<>>
    /\ sleeps = <<>>
    /\ logins = 0
    /\ matcher = NoMatcher
    /\ decoder = NoDecoder

\* upstream_image, upstream_tag = source.split(":") succeeds and
\* copy_repositories is called with the one descriptor
CopyCommand ==
    /\ pc = "copy"
    /\ Len(split(argv.source, ":")) = 2
    /\ repositories' = <<copy_descriptor(argv.source, argv.destination_repository)>>
    /\ pc' = "login"
    /\ UNCHANGED <<registry, abort, task, yielded, copyVars, matcher, argv, decoder>>

\* source.split(":") has not two parts: the unpacking raises ValueError
CopyBadSource ==
    /\ pc = "copy"
    /\ Len(split(argv.source, ":")) # 2
    /\ pc' = "aborted"
    /\ abort' = "source"
    /\ UNCHANGED <<registry, discoveryVars, copyVars, matcher, argv, decoder>>

NextCopy ==
    \/ CopyCommand
    \/ CopyBadSource
    \/ \E blob \in AuthBlobs : EcrLogin(blob)
    \/ EcrLoginRaise
    \/ FindTagsToCopy
    \/ FindTagsToCopyRaise
    \/ PoolMap
    \/ \E i \in DOMAIN wi : StartCopy(i)
    \/ \E i \in DOMAIN wi, returncode \in {0, 1} : TransferExit(i, returncode)
    \/ \E i \in DOMAIN wi : CooldownDone(i)
    \/ PoolJoin

SpecCopy == InitCopy /\ [][NextCopy]_vars

(***************************************************************************)
(* The tag matcher on its own: find_tags_to_copy's filter applied to an    *)
(* arbitrary listing and arbitrary pattern lists.                          *)
(***************************************************************************)
TagAlphabet == {"a", "b"}
PatAlphabet == {"a", "*", "?"}
Tags == SeqsUpTo(TagAlphabet, MaxTagLen) \ {<<>>}
Patterns == SeqsUpTo(PatAlphabet, MaxPatLen)

\* listings of no, one or two tags; pattern lists of no or one pattern
\* (a run of sync applies the matcher to longer pattern lists)
InitMatch ==
    /\ matcher \in [all_tags : SeqsUpTo(Tags, 2),
                    tag_patterns : SeqsUpTo(Patterns, 1),
                    ignore_tags : SeqsUpTo(Patterns, 1),
                    result : {<<>>},
                    called : {FALSE}]
    /\ argv = <<>>
    /\ decoder = NoDecoder
    /\ registry = <<>>
    /\ pc = "matcher"
    /\ abort = "none"
    /\ task = <<>>
    /\ yielded = 0
    /\ repositories = <<>>
    /\ token = None
    /\ resolved = 0
    /\ items = <<>>
    /\ wi = <<>>
    /\ busy = {}
    /\ calls = <<>>
    /\ exits = <<>>
    /\ sleeps = <<>>
    /\ logins = 0

\* the generator of find_tags_to_copy is consumed over all_tags
CallMatcher ==
    /\ pc = "matcher"
    /\ ~matcher.called
    /\ matcher' = [matcher EXCEPT
                     !.result = select_tags(matcher.all_tags, matcher.tag_patterns,
                                            matcher.ignore_tags),
                     !.called = TRUE]
    /\ UNCHANGED <<registry, pc, abort, discoveryVars, copyVars, argv, decoder>>

NextMatch == CallMatcher

SpecMatch == InitMatch /\ [][NextMatch]_vars

(***************************************************************************)
(* The metadata decoding on its own: filter_repo's expression applied to   *)
(* an arbitrary upstream-tags or ignore-tags value.                        *)
(***************************************************************************)
ValueAlphabet == {"v", "1", "+", "/"}
ExampleValue == <<"v","1",".","+","/","v","2",".","+">>
MetadataValues == SeqsUpTo(ValueAlphabet, MaxValueLen) \cup {ExampleValue}

InitDecode ==
    /\ decoder \in [value : MetadataValues, result : {<<>>}, called : {FALSE}]
    /\ matcher = NoMatcher
    /\ argv = <<>>
    /\ registry = <<>>
    /\ pc = "decoder"
    /\ abort = "none"
    /\ task = <<>>
    /\ yielded = 0
    /\ repositories = <<>>
    /\ token = None
    /\ resolved = 0
    /\ items = <<>>
    /\ wi = <<>>
    /\ busy = {}
    /\ calls = <<>>
    /\ exits = <<>>
    /\ sleeps = <<>>
    /\ logins = 0

\* filter_repo decodes the value of a key that is present
CallDecoder ==
    /\ pc = "decoder"
    /\ ~decoder.called
    /\ decoder' = [decoder EXCEPT !.result = decode_patterns(decoder.value),
                                  !.called = TRUE]
    /\ UNCHANGED <<registry, pc, abort, discoveryVars, copyVars, matcher, argv>>

NextDecode == CallDecoder

SpecDecode == InitDecode /\ [][NextDecode]_vars

(***************************************************************************)
(* Properties of the tag matcher.                                          *)
(***************************************************************************)
matches_any(tag, patterns) == \E i \in DOMAIN patterns : fnmatch(tag, patterns[i])

\* C1: the matcher selects a tag iff it matches no exclude pattern and the
\* include list is empty or the tag matches an include pattern; an empty
\* listing gives an empty result, and with no include and no exclude
\* pattern the result is the whole listing.
C1_MatcherPolicy ==
    matcher.called =>
        /\ Range(matcher.result) =
              {t \in Range(matcher.all_tags) :
                  /\ ~matches_any(t, matcher.ignore_tags)
                  /\ (matcher.tag_patterns = <<>> \/ matches_any(t, matcher.tag_patterns))}
        /\ (matcher.all_tags = <<>> => matcher.result = <<>>)
        /\ (matcher.tag_patterns = <<>> /\ matcher.ignore_tags = <<>>
               => matcher.result = matcher.all_tags)

\* a listing with a tag that is selected and a tag that an include pattern
\* matches but an exclude pattern rejects
C1_Witness ==
    /\ matcher.called
    /\ matcher.result # <<>>
    /\ \E t \in Range(matcher.all_tags) :
          /\ matches_any(t, matcher.tag_patterns)
          /\ matches_any(t, matcher.ignore_tags)
          /\ t \notin Range(matcher.result)

(***************************************************************************)
(* Properties of a sync run.                                               *)
(***************************************************************************)
\* the run is over: copy_repositories returned or an exception left sync
Finished == pc \in {"done", "aborted"}

\* tag t of the descriptor's upstream listing passes the stated policy
policy_selects(d, t) ==
    /\ ~matches_any(t, d.ignore_tags)
    /\ (d.upstream_tags = <<>> \/ matches_any(t, d.upstream_tags))

\* a WorkItem for tag t of descriptor d has been created
has_item(d, t) == \E i \in DOMAIN items : items[i] = <<d, t>>

\* skopeo copy has been invoked for tag t of descriptor d
was_copied(d, t) ==
    \E i \in DOMAIN calls : items[i] = <<d, t>> /\ calls[i] # <<>>

\* C2: no WorkItem is created, and no copy is invoked, for a tag that
\* matches an exclude pattern of its descriptor, whatever the include
\* patterns match.
C2_ExcludeDominance ==
    /\ \A i \in DOMAIN items : ~matches_any(items[i][2], items[i][1].ignore_tags)
    /\ \A i \in DOMAIN calls : \A k \in DOMAIN calls[i] :
          \A j \in DOMAIN repositories :
             \A t \in Range(UpstreamTags(repositories[j].upstream_image)) :
                calls[i][k].dest = repositories[j].repository_uri \o <<":">> \o t
                   => ~matches_any(t, repositories[j].ignore_tags)

\* a copy is running for a descriptor one of whose upstream tags matches
\* both an include and an exclude pattern
C2_Witness ==
    \E i \in DOMAIN calls :
       /\ calls[i] # <<>>
       /\ \E t \in Range(UpstreamTags(items[i][1].upstream_image)) :
             /\ matches_any(t, items[i][1].upstream_tags)
             /\ matches_any(t, items[i][1].ignore_tags)

\* C3: when the upstream listing fails for one descriptor, every other
\* descriptor of the run is still resolved and all its selected tags are
\* copied.
C3_ListingFailureContained ==
    (Finished /\ abort = "listing") =>
        \A j \in DOMAIN repositories :
           j # resolved + 1 =>
              /\ j <= resolved
              /\ \A t \in Range(UpstreamTags(repositories[j].upstream_image)) :
                    policy_selects(repositories[j], t) => was_copied(repositories[j], t)

\* C4: when the metadata fetch fails for one repository, discovery goes on:
\* every other repository carrying upstream-image is emitted as a descriptor.
C4_FetchFailureContained ==
    (Finished /\ \E i \in DOMAIN task : task[i] = "raised") =>
        /\ abort # "fetch"
        /\ \A i \in DOMAIN task :
              (task[i] # "raised" /\ K_image \in DOMAIN registry[i].tags) =>
                 \E j \in DOMAIN repositories :
                    /\ repositories[j].repository_uri = registry[i].repositoryUri
                    /\ repositories[j].upstream_image = registry[i].tags[K_image]

\* C5: under fair scheduling every submitted WorkItem is executed, however
\* many siblings fail: the run reaches its end with a copy invoked for the
\* item, the item Succeeded if its transfer exited 0 and Failed otherwise.
C5_EveryItemRuns ==
    (pc = "pool") ~>
        (/\ pc = "done"
         /\ \A i \in DOMAIN wi :
               /\ Len(calls[i]) >= 1
               /\ Len(exits[i]) >= 1
               /\ (exits[i][1] = 0 => wi[i] = "Succeeded")
               /\ (exits[i][1] # 0 => wi[i] = "Failed"))

\* the run ended with an item Failed and a later sibling Succeeded
C5_Witness ==
    /\ pc = "done"
    /\ \E i, j \in DOMAIN wi : i < j /\ wi[i] = "Failed" /\ wi[j] = "Succeeded"

\* C6: at most 4 image transfers are in flight at any time.
C6_AtMostFourInFlight ==
    /\ Cardinality({i \in DOMAIN wi : wi[i] = "Running"}) <= 4
    /\ Cardinality(busy) <= 4

\* four transfers are running while a fifth WorkItem waits in the queue
C6_Witness ==
    /\ Cardinality({i \in DOMAIN wi : wi[i] = "Running"}) = 4
    /\ \E i \in DOMAIN wi : wi[i] = "Pending"

\* C7: when copy_repositories returns, every submitted WorkItem is
\* Succeeded or Failed and no copy_image call is still running.
C7_DrainedAtReturn ==
    pc = "done" =>
        /\ \A i \in DOMAIN wi : wi[i] \in Terminal
        /\ busy = {}

\* copy_repositories returned from a run whose first WorkItem failed
C7_Witness ==
    /\ pc = "done"
    /\ Len(wi) >= 2
    /\ wi[1] = "Failed"

\* C8: when the authorization token cannot be obtained the run aborts with
\* no WorkItem submitted or started and no transfer invoked.
C8_LoginFailureAbortsRun ==
    abort = "login" =>
        /\ pc = "aborted"
        /\ wi = <<>>
        /\ busy = {}
        /\ \A i \in DOMAIN calls : calls[i] = <<>>

\* the login failed in a run that had tags to copy
C8_Witness ==
    /\ abort = "login"
    /\ \E j \in DOMAIN repositories :
          expand(repositories[j]) # <<>>

\* C9: a repository with upstream-image and no upstream-tags gets a
\* WorkItem for every upstream tag that matches no exclude pattern.
C9_NoIncludeMirrorsAll ==
    pc \in {"pool", "done"} =>
        \A r \in DOMAIN registry, j \in DOMAIN repositories :
           (/\ repositories[j].repository_uri = registry[r].repositoryUri
            /\ K_tags \notin DOMAIN registry[r].tags) =>
              \A t \in Range(UpstreamTags(repositories[j].upstream_image)) :
                 ~matches_any(t, repositories[j].ignore_tags) => has_item(repositories[j], t)

\* the (source, destination) pairs the stated policy asks for
expected_pairs ==
    {<<repositories[j].upstream_image \o <<":">> \o t,
       repositories[j].repository_uri \o <<":">> \o t>> :
        <<j, t>> \in {jt \in (DOMAIN repositories) \X
                             (Range(UpstreamTags(alpine)) \cup Range(UpstreamTags(busybox))) :
                        /\ jt[2] \in Range(UpstreamTags(repositories[jt[1]].upstream_image))
                        /\ policy_selects(repositories[jt[1]], jt[2])}}

\* C10: the WorkItems submitted are exactly the pairs (upstream_image:t,
\* repository_uri:t) for each descriptor and each tag t the matcher selects
\* from that descriptor's listing, each once; the copies invoked are among
\* them; include ["3.*"] with exclude ["3.9"] on the alpine listing gives
\* the tags 3.8 and 3.10 only.
C10_ItemsAreSelectedPairs ==
    pc \in {"pool", "done"} =>
        /\ {<<source_image(items[i]), dest_image(items[i])>> : i \in DOMAIN items}
              = expected_pairs
        /\ Len(items) = Cardinality(expected_pairs)
        /\ \A i \in DOMAIN calls : \A k \in DOMAIN calls[i] :
              <<calls[i][k].source, calls[i][k].dest>> \in expected_pairs
        /\ \A j \in DOMAIN repositories :
              (/\ repositories[j].upstream_image = alpine
               /\ repositories[j].upstream_tags = << <<"3",".","*">> >>
               /\ repositories[j].ignore_tags = << <<"3",".","9">> >>) =>
                 {items[i][2] : i \in {k \in DOMAIN items : items[k][1] = repositories[j]}}
                    = { <<"3",".","8">>, <<"3",".","1","0">> }

\* two descriptors, one of them the alpine example, have their WorkItems
\* submitted and a copy of the second descriptor has been invoked
C10_Witness ==
    /\ pc = "pool"
    /\ Len(repositories) >= 2
    /\ \E j \in DOMAIN repositories :
          /\ repositories[j].upstream_tags = << <<"3",".","*">> >>
          /\ repositories[j].ignore_tags = << <<"3",".","9">> >>
    /\ \E i \in DOMAIN calls : calls[i] # <<>> /\ items[i][1] = repositories[2]

(***************************************************************************)
(* Properties of the copy stage.                                           *)
(***************************************************************************)
\* C11: a WorkItem only goes Pending -> Running -> Succeeded or Failed, it
\* never leaves a terminal state, skopeo copy is never invoked twice for
\* it, and when the run completes it has been invoked exactly once.
C11_ItemLifecycle ==
    /\ [][\A i \in (DOMAIN wi) \cap (DOMAIN wi') :
             wi'[i] # wi[i] =>
                \/ wi[i] = "Pending" /\ wi'[i] = "Running"
                \/ wi[i] = "Running" /\ wi'[i] \in Terminal]_vars
    /\ [](\A i \in DOMAIN calls : Len(calls[i]) <= 1)
    /\ [](pc = "done" =>
            \A i \in DOMAIN wi : Len(calls[i]) = 1 /\ Len(exits[i]) = 1)

\* the run completed with a Failed item that was invoked once
C11_Witness ==
    /\ pc = "done"
    /\ \E i \in DOMAIN wi :
          wi[i] = "Failed" /\ Len(calls[i]) = 1 /\ exits[i] = <<1>>

\* C12: every copy attempt, successful or failed, is followed by one
\* time.sleep(1) before copy_image returns, so at most 4 started items are
\* without their cooldown: no worker takes a next item before it.
C12_CooldownAfterEveryAttempt ==
    /\ \A i \in DOMAIN wi :
          /\ (i \notin busy /\ calls[i] # <<>>) =>
                /\ Len(sleeps[i]) = Len(calls[i])
                /\ \A k \in DOMAIN sleeps[i] : sleeps[i][k] = 1
          /\ (i \in busy) => sleeps[i] = <<>>
    /\ Cardinality({i \in DOMAIN wi : calls[i] # <<>> /\ sleeps[i] = <<>>}) <= 4

\* a failed copy has had its cooldown while a later item is being copied by
\* the worker it set free
C12_Witness ==
    /\ Len(wi) > 4
    /\ wi[1] = "Failed" /\ 1 \notin busy /\ sleeps[1] = <<1>>
    /\ wi[5] = "Running"

(***************************************************************************)
(* Properties of the copy command.                                         *)
(***************************************************************************)
\* the (source, destination) references of the WorkItems created
item_pairs == {<<source_image(items[i]), dest_image(items[i])>> : i \in DOMAIN items}

\* the copy command has not touched the discovery stage
NoDiscovery == yielded = 0 /\ \A i \in DOMAIN task : task[i] = "new"

\* C13 as stated: copy does no discovery and, whatever the upstream
\* listing, submits exactly the one WorkItem (image:tag, D:tag).
C13_CopyExactlyOne ==
    \A image \in CopyImages, tag \in CopyTags :
       (argv # <<>> /\ argv.source = image \o <<":">> \o tag) =>
          /\ NoDiscovery
          /\ pc \in {"pool", "done"} =>
                /\ Len(items) = 1
                /\ item_pairs = {<<argv.source,
                                   argv.destination_repository \o <<":">> \o tag>>}

\* C13 amended: copy does no discovery and submits one WorkItem
\* (image:t, D:t) for each tag t of the upstream listing that the given
\* tag matches as a glob pattern: exactly (image:tag, D:tag) when the tag
\* has no wildcard and is listed, none when nothing listed matches.
C13_CopyMatchingTags ==
    \A image \in CopyImages, tag \in CopyTags :
       (argv # <<>> /\ argv.source = image \o <<":">> \o tag) =>
          /\ NoDiscovery
          /\ pc \in {"pool", "done"} =>
                LET listed == {t \in Range(UpstreamTags(image)) : fnmatch(t, tag)}
                IN  /\ item_pairs =
                          {<<image \o <<":">> \o t,
                             argv.destination_repository \o <<":">> \o t>> : t \in listed}
                    /\ Len(items) = Cardinality(listed)
                    /\ (tag \in Range(UpstreamTags(image))
                        /\ \A k \in DOMAIN tag : tag[k] \notin {"*", "?", "["})
                          => item_pairs = {<<argv.source,
                                             argv.destination_repository \o <<":">> \o tag>>}
                    /\ listed = {} => items = <<>>

\* copy alpine:3.* has submitted its three WorkItems and started one
C13_Witness ==
    /\ argv # <<>>
    /\ argv.source = alpine \o <<":">> \o <<"3",".","*">>
    /\ pc = "pool"
    /\ Len(items) = 3
    /\ calls[1] # <<>>

(***************************************************************************)
(* Properties of the discovery stage.                                      *)
(***************************************************************************)
\* a sync run whose discovery ended without a failed metadata fetch
DiscoveryComplete ==
    /\ argv = <<>>
    /\ \/ pc \in {"login", "resolve", "pool", "done"}
       \/ pc = "aborted" /\ abort \in {"login", "listing"}

\* the descriptors emitted for the i-th listed repository
emitted_for(i) ==
    {j \in DOMAIN repositories :
        repositories[j].repository_uri = registry[i].repositoryUri}

\* C14: when every metadata fetch succeeds, discovery emits exactly one
\* descriptor for each repository carrying upstream-image and none for the
\* others, in whatever order the fetch tasks ran; each descriptor has its
\* own repository's upstream image and URI.
C14_OneDescriptorPerMarkedRepo ==
    DiscoveryComplete =>
        /\ \A i \in DOMAIN registry :
              IF K_image \in DOMAIN registry[i].tags
              THEN /\ Cardinality(emitted_for(i)) = 1
                   /\ \A j \in emitted_for(i) :
                         repositories[j].upstream_image = registry[i].tags[K_image]
              ELSE emitted_for(i) = {}
        /\ \A j \in DOMAIN repositories :
              \E i \in DOMAIN registry : j \in emitted_for(i)

\* discovery is over for a registry whose first repository lacks
\* upstream-image and whose second carries it
C14_Witness ==
    /\ DiscoveryComplete
    /\ pc = "login"
    /\ K_image \notin DOMAIN registry[1].tags
    /\ K_image \in DOMAIN registry[2].tags
    /\ Len(repositories) >= 1

(***************************************************************************)
(* Properties of failure handling in the copy stage.                       *)
(***************************************************************************)
\* C15: a non-zero exit of skopeo copy raises nothing: the item is Failed,
\* no exception ends the run, and the run goes on to complete with the
\* status it has when every copy succeeds.
C15_CopyFailureNotFatal ==
    /\ [](\A i \in DOMAIN wi :
             wi[i] = "Failed" => abort = "none" /\ pc \in {"pool", "done"})
    /\ [](pc = "done" => abort = "none")
    /\ (\E i \in DOMAIN wi : wi[i] = "Failed") ~> (pc = "done" /\ abort = "none")

\* the run completed although every one of its copies failed
C15_Witness ==
    /\ pc = "done"
    /\ abort = "none"
    /\ Len(wi) >= 2
    /\ \A i \in DOMAIN wi : wi[i] = "Failed"

(***************************************************************************)
(* Properties of the metadata decoding.                                    *)
(***************************************************************************)
\* C16: a descriptor of a repository without upstream-tags has an empty
\* include sequence, and one of a repository without ignore-tags an empty
\* exclude sequence.
C16_AbsentMeansEmpty ==
    argv = <<>> =>
        \A i \in DOMAIN registry : \A j \in emitted_for(i) :
           /\ K_tags \notin DOMAIN registry[i].tags
                 => repositories[j].upstream_tags = <<>>
           /\ K_ignore \notin DOMAIN registry[i].tags
                 => repositories[j].ignore_tags = <<>>

\* the patterns written one after the other with "/" between them
RECURSIVE joined(_)
joined(patterns) ==
    IF patterns = <<>> THEN <<>>
    ELSE IF Len(patterns) = 1 THEN patterns[1]
    ELSE patterns[1] \o <<"/">> \o joined(Tail(patterns))

\* C17: a present value decodes to its pieces between the "/"s, in order,
\* each "+" replaced by "*": one more pattern than the value has "/", no
\* "+" and no "/" in a pattern; "v1.+/v2.+" decodes to ["v1.*", "v2.*"].
C17_DecodeSplitsAndUnescapes ==
    decoder.called =>
        LET v == decoder.value
            r == decoder.result
        IN  /\ Len(r) = 1 + Cardinality({k \in DOMAIN v : v[k] = "/"})
            /\ \A p \in DOMAIN r : \A k \in DOMAIN r[p] : r[p][k] \notin {"+", "/"}
            /\ Len(joined(r)) = Len(v)
            /\ \A k \in DOMAIN v :
                  joined(r)[k] = (IF v[k] = "+" THEN "*" ELSE v[k])
            /\ v = ExampleValue =>
                  r = << <<"v","1",".","*">>, <<"v","2",".","*">> >>

\* the example value has been decoded
C17_Witness ==
    /\ decoder.called
    /\ decoder.value = ExampleValue
    /\ Len(decoder.result) = 2

(***************************************************************************)
(* Properties of the destination token.                                    *)
(***************************************************************************)
\* C18: a run makes one authorization call, every skopeo copy of the run
\* gets the token that call returned, and the token never changes once
\* obtained.
C18_OneTokenForAllCopies ==
    /\ [](logins <= 1)
    /\ [](pc \in {"resolve", "pool", "done"} =>
            logins = 1 /\ token \in {b64decode(blob) : blob \in AuthBlobs})
    /\ [](\A i \in DOMAIN calls : \A k \in DOMAIN calls[i] :
             calls[i][k].creds = token /\ token # None)
    /\ [][token # None => token' = token]_vars

\* two items have been handed to skopeo copy with the one token
C18_Witness ==
    /\ logins = 1
    /\ token = "AWS:pw2"
    /\ \E i, j \in DOMAIN calls :
          i # j /\ calls[i] # <<>> /\ calls[j] # <<>>
          /\ calls[i][1].creds = "AWS:pw2" /\ calls[j][1].creds = "AWS:pw2"

(***************************************************************************)
(* Stage boundaries of a sync run.                                         *)
(***************************************************************************)
\* some step of copy_repositories has been taken
copy_stage_entered ==
    \/ pc \in {"login", "resolve", "pool", "done"}
    \/ logins > 0
    \/ resolved > 0
    \/ wi # <<>>
    \/ abort \in {"login", "listing"}

\* C19: in a sync run no authentication, upstream listing or copy happens
\* while a metadata fetch task of the discovery stage is pending or running:
\* every task has completed when copy_repositories is entered.
C19_DiscoveryBeforeCopyStage ==
    copy_stage_entered =>
        /\ yielded = NumRepos
        /\ \A i \in 1..NumRepos : task[i] = "done"

\* the token has been obtained after a discovery of every repository
C19_Witness ==
    /\ pc = "resolve"
    /\ logins = 1
    /\ Len(repositories) = NumRepos
    /\ \A i \in 1..NumRepos : task[i] = "done"

\* skopeo copy has been started for some item
copy_attempted == \E i \in DOMAIN calls : calls[i] # <<>>

\* C20: no transfer starts before the upstream tags of every descriptor are
\* resolved and the whole item list is built, so a listing failure happens
\* with zero copies attempted.
C20_ResolutionBeforeCopies ==
    /\ (pc \in {"pool", "done"} \/ wi # <<>> \/ copy_attempted) =>
          /\ resolved = Len(repositories)
          /\ DOMAIN wi = DOMAIN items
          /\ item_pairs = expected_pairs
    /\ abort = "listing" => wi = <<>> /\ ~copy_attempted

\* a transfer runs after two descriptors have been resolved
C20_Witness ==
    /\ pc = "pool"
    /\ Len(repositories) = 2
    /\ resolved = 2
    /\ copy_attempted

====
